---- MODULE Spec2Model ----
(***************************************************************************)
(* Model of the seat-allocation engine of admission_system/addmission.py:  *)
(* Student records, the seats table, initial_allocation, the cascading     *)
(* upgrade_and_fill, withdraw and add_capacity.                            *)
(*                                                                         *)
(* Every public method runs to completion before it returns, so each is    *)
(* one action.  Python's None is the string None for the two optional      *)
(* string fields and NoIndex for the optional integer field.  A date of    *)
(* birth "YYYY-MM-DD" is the integer YYYYMMDD: for fixed-width ISO dates   *)
(* string order and integer order coincide.                                *)
(***************************************************************************)
EXTENDS Integers, Sequences, FiniteSets, TLC

VARIABLES
    seats,      \* AdmissionSystem.seats: (branch, seat type) -> remaining seats
    students,   \* AdmissionSystem.students: the list of Student records
    allocated,  \* TRUE once initial_allocation has been called
    config,     \* history: the seats table the engine was constructed with
    added,      \* history: (branch, seat type) -> sum of the deltas of add_capacity
    spent,      \* history: sum of Cost(delta) over the add_capacity calls
    last,       \* history: the most recent call and its arguments
    moves,      \* history: the moves of the cascade of the most recent call, in order
    raised,     \* history: TRUE iff the most recent call ended in an exception
    returned,   \* history: the value the most recent call returned
    before      \* history: the seat pool and candidate list the most recent call found

vars == <<seats, students, allocated, config, added, spent, last, moves, raised,
          returned, before>>

-----------------------------------------------------------------------------
(* Module constants, lines 4-6 *)

OPEN == "OPEN"
RESERVED_CATS == {"OBC", "SC", "ST", "EWS"}
ALL_CATS == <<OPEN, "OBC", "SC", "ST", "EWS">>

None == "None"
NoIndex == -1
NotFound == 1000000000

-----------------------------------------------------------------------------
(* Bounds of the model *)

MaxAdded == 2       \* add_capacity calls stop once their costs sum to this
MaxDelta == 2       \* the largest delta of one add_capacity call
MaxDeficit == 1     \* the smallest delta of one add_capacity call is -MaxDeficit
MaxPermLen == 4     \* lists up to this length are tried in every order

-----------------------------------------------------------------------------
(* Student, lines 8-39 *)

Student(sid, rank, category, preferences, total_marks, subject_marks, dob) ==
    [sid |-> sid, rank |-> rank, category |-> category,
     preferences |-> preferences, total_marks |-> total_marks,
     subject_marks |-> subject_marks, dob |-> dob,
     assigned_branch |-> None, assigned_seat_type |-> None,
     assigned_pref_index |-> NoIndex]

\* The ids the model uses, in Python's string order.
SidOrder == <<"S1", "S2", "S3", "S4", "S5", "S6", "S7", "S8", "S9">>

SidRank(sid) == CHOOSE i \in 1..Len(SidOrder) : SidOrder[i] = sid

Key(s) == <<s.rank, -s.total_marks, -s.subject_marks, s.dob, s.sid>>

\* Python's tuple comparison k1 < k2 of two keys
KeyLessFlipped(k1, k2) ==
    \/ k1[1] > k2[1]
    \/ k1[1] = k2[1] /\ k1[2] > k2[2]
    \/ k1[1] = k2[1] /\ k1[2] = k2[2] /\ k1[3] > k2[3]
    \/ k1[1] = k2[1] /\ k1[2] = k2[2] /\ k1[3] = k2[3] /\ k1[4] > k2[4]
    \/ k1[1] = k2[1] /\ k1[2] = k2[2] /\ k1[3] = k2[3] /\ k1[4] = k2[4]
       /\ SidRank(k1[5]) > SidRank(k2[5])

KeyLess(k1, k2) ==
    \/ k1[1] < k2[1]
    \/ k1[1] = k2[1] /\ k1[2] < k2[2]
    \/ k1[1] = k2[1] /\ k1[2] = k2[2] /\ k1[3] < k2[3]
    \/ k1[1] = k2[1] /\ k1[2] = k2[2] /\ k1[3] = k2[3] /\ k1[4] < k2[4]
    \/ k1[1] = k2[1] /\ k1[2] = k2[2] /\ k1[3] = k2[3] /\ k1[4] = k2[4]
       /\ SidRank(k1[5]) < SidRank(k2[5])

InPreferences(s, branch) == \E i \in 1..Len(s.preferences) : s.preferences[i] = branch

\* list.index is 0-based and returns the first position
PrefIndex(s, branch) ==
    IF InPreferences(s, branch)
    THEN (CHOOSE i \in 1..Len(s.preferences) :
            /\ s.preferences[i] = branch
            /\ \A j \in 1..(i - 1) : s.preferences[j] # branch) - 1
    ELSE NotFound

PrefersWorse(s, branch) ==
    IF ~InPreferences(s, branch) THEN FALSE
    ELSE IF s.assigned_branch = None THEN TRUE
    ELSE PrefIndex(s, branch) > s.assigned_pref_index

Prefers(s, branch) ==
    IF ~InPreferences(s, branch) THEN FALSE
    ELSE IF s.assigned_branch = None THEN TRUE
    ELSE PrefIndex(s, branch) < s.assigned_pref_index

-----------------------------------------------------------------------------
(* AdmissionSystem helpers, lines 41-57 *)

\* self.seats.get(b, {}).get(t, 0)
Get(table, b, t) == IF <<b, t>> \in DOMAIN table THEN table[<<b, t>>] ELSE 0

\* table with the entry (b, t) set to n, created when absent
Put(table, b, t, n) ==
    [p \in (DOMAIN table) \cup {<<b, t>>} |-> IF p = <<b, t>> THEN n ELSE table[p]]

EligibleForAny(s, seat_type) == TRUE

EligibleFor(s, seat_type) ==
    IF seat_type = OPEN THEN TRUE ELSE s.category = seat_type

AssignStaleIndex(s, branch, seat_type) ==
    [s EXCEPT !.assigned_branch = branch,
              !.assigned_seat_type = seat_type]

\* the three assignments of lines 55-57 and 102-104
Assign(s, branch, seat_type) ==
    [s EXCEPT !.assigned_branch = branch,
              !.assigned_seat_type = seat_type,
              !.assigned_pref_index = PrefIndex(s, branch)]

\* _allocate: the assertion fails (raised) when no seat remains
Allocate(table, s, branch, seat_type) ==
    IF Get(table, branch, seat_type) > 0
    THEN [seats |-> Put(table, branch, seat_type, Get(table, branch, seat_type) - 1),
          s |-> Assign(s, branch, seat_type), raised |-> FALSE]
    ELSE [seats |-> table, s |-> s, raised |-> TRUE]

-----------------------------------------------------------------------------
(* initial_allocation, lines 59-71 *)

\* list.sort(key=...) is a stable insertion into ascending key order
InsertByKey(sorted, s) ==
    LET n == Cardinality({i \in 1..Len(sorted) : ~KeyLess(Key(s), Key(sorted[i]))})
    IN  SubSeq(sorted, 1, n) \o <<s>> \o SubSeq(sorted, n + 1, Len(sorted))

RECURSIVE SortPrefix(_, _)
SortPrefix(list, n) ==
    IF n = 0 THEN <<>> ELSE InsertByKey(SortPrefix(list, n - 1), list[n])

SortUnsorted(list) == list

SortByKey(list) == SortPrefix(list, Len(list))

SeatTypeAtReservedFirst(table, s, b) ==
    IF s.category \in RESERVED_CATS /\ Get(table, b, s.category) > 0 THEN s.category
    ELSE IF Get(table, b, OPEN) > 0 THEN OPEN
    ELSE None

\* lines 64-70: the seat type the scan takes at branch b, None when it moves on
SeatTypeAt(table, s, b) ==
    IF Get(table, b, OPEN) > 0 THEN OPEN
    ELSE IF s.category \in RESERVED_CATS /\ Get(table, b, s.category) > 0 THEN s.category
    ELSE None

\* for b in s.preferences, from position i (1-based)
RECURSIVE ScanPreferences(_, _, _)
ScanPreferences(table, s, i) ==
    IF i > Len(s.preferences) THEN [seats |-> table, s |-> s, raised |-> FALSE]
    ELSE LET b == s.preferences[i]
             t == SeatTypeAt(table, s, b)
         IN  IF t # None THEN Allocate(table, s, b, t)
             ELSE ScanPreferences(table, s, i + 1)

\* for s in self.students, from position i (1-based)
RECURSIVE AllocateFrom(_, _, _)
AllocateFrom(table, list, i) ==
    IF i > Len(list) THEN [seats |-> table, students |-> list, raised |-> FALSE]
    ELSE LET r == ScanPreferences(table, list[i], 1)
         IN  IF r.raised THEN [seats |-> r.seats, students |-> list, raised |-> TRUE]
             ELSE AllocateFrom(r.seats, [list EXCEPT ![i] = r.s], i + 1)

InitialAllocation(table, list) == AllocateFrom(table, SortByKey(list), 1)

-----------------------------------------------------------------------------
(* _best_candidate_for, lines 73-87: the position of the best candidate in *)
(* the list, 0 for None                                                    *)

RECURSIVE BestFrom(_, _, _, _, _)
BestFrom(list, branch, seat_type, i, best) ==
    IF i > Len(list) THEN best
    ELSE LET s == list[i]
         IN  IF \/ ~InPreferences(s, branch)
                \/ ~EligibleFor(s, seat_type)
                \/ ~Prefers(s, branch)
             THEN BestFrom(list, branch, seat_type, i + 1, best)
             ELSE IF best = 0 \/ KeyLess(Key(s), Key(list[best]))
                  THEN BestFrom(list, branch, seat_type, i + 1, i)
                  ELSE BestFrom(list, branch, seat_type, i + 1, best)

BestCandidateFor(list, branch, seat_type) == BestFrom(list, branch, seat_type, 1, 0)

-----------------------------------------------------------------------------
(* upgrade_and_fill, lines 89-109 *)

FreeSeatLost(table, b, t) == table

\* self.seats[b][t] += 1, lines 108 and 118
FreeSeat(table, b, t) == Put(table, b, t, Get(table, b, t) + 1)

RequeueDropped(vacancies, b, t) == vacancies

\* vacancies.append((prev_b, prev_t)), line 109
Requeue(vacancies, b, t) == Append(vacancies, <<b, t>>)

\* lines 97-109: the candidate at position c takes a seat of (b, t)
MoveInto(table, list, vacancies, c, b, t) ==
    LET cand == list[c]
        prev_b == cand.assigned_branch
        prev_t == cand.assigned_seat_type
        taken == Put(table, b, t, Get(table, b, t) - 1)
    IN  [seats |-> IF prev_b # None THEN FreeSeat(taken, prev_b, prev_t) ELSE taken,
         students |-> [list EXCEPT ![c] = Assign(cand, b, t)],
         vacancies |-> IF prev_b # None THEN Requeue(vacancies, prev_b, prev_t)
                       ELSE vacancies,
         \* history: who moved, from which index to which, the counter the seat
         \* was taken from and the counter right after the decrement of line 101
         move |-> [sid |-> cand.sid, from |-> cand.assigned_pref_index,
                   to |-> PrefIndex(cand, b), counter |-> Get(table, b, t),
                   after |-> Get(taken, b, t)]]

\* the inner loop, lines 93-109, for the popped pair (b, t)
RECURSIVE FillPair(_, _, _, _, _)

FillPairOffByOne(table, list, vacancies, b, t) ==
    IF Get(table, b, t) >= 0
    THEN LET c == BestCandidateFor(list, b, t)
         IN  IF c = 0
             THEN [seats |-> table, students |-> list, vacancies |-> vacancies,
                   moves |-> <<>>]
             ELSE LET m == MoveInto(table, list, vacancies, c, b, t)
                      r == FillPair(m.seats, m.students, m.vacancies, b, t)
                  IN  [r EXCEPT !.moves = <<m.move>> \o @]
    ELSE [seats |-> table, students |-> list, vacancies |-> vacancies, moves |-> <<>>]

FillPair(table, list, vacancies, b, t) ==
    IF Get(table, b, t) > 0
    THEN LET c == BestCandidateFor(list, b, t)
         IN  IF c = 0
             THEN [seats |-> table, students |-> list, vacancies |-> vacancies,
                   moves |-> <<>>]
             ELSE LET m == MoveInto(table, list, vacancies, c, b, t)
                      r == FillPair(m.seats, m.students, m.vacancies, b, t)
                  IN  [r EXCEPT !.moves = <<m.move>> \o @]
    ELSE [seats |-> table, students |-> list, vacancies |-> vacancies, moves |-> <<>>]

\* the outer loop, lines 91-92
RECURSIVE DrainVacancies(_, _, _)
DrainVacancies(table, list, vacancies) ==
    IF vacancies = <<>> THEN [seats |-> table, students |-> list, moves |-> <<>>]
    ELSE LET p == Head(vacancies)
             r == FillPair(table, list, Tail(vacancies), p[1], p[2])
             d == DrainVacancies(r.seats, r.students, r.vacancies)
         IN  [d EXCEPT !.moves = r.moves \o @]

UpgradeAndFill(table, list, branch, seat_type) ==
    DrainVacancies(table, list, <<<<branch, seat_type>>>>)

-----------------------------------------------------------------------------
(* Configurations the engine is constructed from *)

\* the demo of lines 137-151
RefBranches == {"CSE", "ECE", "ME"}

RefSeats ==
    [p \in RefBranches \X {ALL_CATS[i] : i \in 1..Len(ALL_CATS)} |->
        CASE p = <<"CSE", OPEN>>  -> 2
          [] p = <<"CSE", "OBC">> -> 1
          [] p = <<"CSE", "SC">>  -> 1
          [] p = <<"ECE", OPEN>>  -> 2
          [] p = <<"ECE", "OBC">> -> 1
          [] p = <<"ECE", "SC">>  -> 1
          [] p = <<"ME", OPEN>>   -> 1
          [] p = <<"ME", "OBC">>  -> 1
          [] OTHER -> 0]

RefStudents ==
    << Student("S1", 1, "GEN", <<"CSE", "ECE", "ME">>, 480, 95, 20040201),
       Student("S2", 2, "OBC", <<"CSE", "ECE", "ME">>, 475, 94, 20040510),
       Student("S3", 3, "SC",  <<"CSE", "ME">>,        470, 90, 20040320),
       Student("S4", 4, "GEN", <<"CSE", "ECE">>,       468, 91, 20040105),
       Student("S5", 5, "OBC", <<"ECE", "CSE", "ME">>, 465, 89, 20040711),
       Student("S6", 6, "GEN", <<"ME", "CSE">>,        460, 88, 20040930),
       Student("S7", 7, "SC",  <<"CSE", "ECE">>,       455, 85, 20040401),
       Student("S8", 8, "GEN", <<"ECE">>,              450, 84, 20041212) >>

RefConfig == [seats |-> RefSeats, students |-> RefStudents]

\* Small configurations: three candidates listed out of key order, two
\* branches, every choice of preferences, the third candidate of category SC
\* and the others of either category, at most one pair short of one seat per
\* pair; the entry (ECE, SC) is absent from the table.
SmallPrefs == {<<"CSE">>, <<"CSE", "ECE">>, <<"ECE", "CSE">>}
SmallCats == {"GEN", "SC"}
SmallPairs == {<<"CSE", OPEN>>, <<"CSE", "SC">>, <<"ECE", OPEN>>}

SmallSeats == {cap \in [SmallPairs -> 0..1] : \E q \in SmallPairs : \A r \in SmallPairs \ {q} : cap[r] = 1}

SmallConfigs ==
    { [seats |-> cap,
       students |-> << Student("S1", 2, c[1], p[1], 400, 90, 20040201),
                       Student("S2", 1, c[2], p[2], 400, 90, 20040201),
                       Student("S3", 2, c[3], p[3], 450, 90, 20040201) >>] :
        cap \in SmallSeats,
        c \in {d \in [1..3 -> SmallCats] : d[3] = "SC"},
        p \in [1..3 -> SmallPrefs] }

\* Candidates whose keys tie down to the subject marks, the date and the id
TieStudents(p) ==
    << Student("S3", 1, "SC",  p[1], 400, 90, 20040201),
       Student("S1", 1, "GEN", p[2], 400, 90, 20040305),
       Student("S2", 1, "GEN", p[3], 400, 90, 20040201),
       Student("S4", 1, "SC",  p[4], 400, 95, 20040305) >>

TieConfigs ==
    { [seats |-> cap, students |-> TieStudents(p)] :
        cap \in {[q \in SmallPairs |-> 1]},
        p \in [1..4 -> {<<"CSE", "ECE">>, <<"ECE", "CSE">>}] }

Configs == {RefConfig} \cup SmallConfigs \cup TieConfigs

\* Arguments of the calls
AddBranches == {"CSE", "ECE"}
AddTypes == {OPEN, "SC"}
AddPairs == AddBranches \X AddTypes
UnknownSid == "S9"
Sids == {students[i].sid : i \in 1..Len(students)} \cup {UnknownSid}

\* what a call of add_capacity takes from the budget MaxAdded
Cost(delta) == IF delta >= 1 THEN delta ELSE 1 - delta

\* a returned value: Python's None, or a list
ReturnedNone == [is_none |-> TRUE, value |-> <<>>]
ReturnedList(list) == [is_none |-> FALSE, value |-> list]

Call(op, sid, branch, seat_type, delta) ==
    [op |-> op, sid |-> sid, branch |-> branch, seat_type |-> seat_type, delta |-> delta]

-----------------------------------------------------------------------------
(* The state machine *)

Init ==
    \E c \in Configs :
        /\ seats = c.seats
        /\ students = c.students
        /\ config = c.seats
        /\ allocated = FALSE
        /\ added = [p \in AddPairs |-> 0]
        /\ spent = 0
        /\ moves = <<>>
        /\ last = Call("new", None, None, None, 0)
        /\ raised = FALSE
        /\ returned = ReturnedNone
        /\ before = [seats |-> seats, students |-> students]

\* initial_allocation, lines 59-71; calling it twice is unsupported
InitialAllocate ==
    /\ ~allocated
    /\ LET r == InitialAllocation(seats, students)
       IN  /\ seats' = r.seats
           /\ students' = r.students
           /\ raised' = r.raised
    /\ allocated' = TRUE
    /\ moves' = <<>>
    /\ last' = Call("initial_allocation", None, None, None, 0)
    /\ returned' = ReturnedNone
    /\ before' = [seats |-> seats, students |-> students]
    /\ UNCHANGED <<config, added, spent>>

\* next((x for x in self.students if x.sid == sid), None): position, 0 for None
FindSid(list, sid) ==
    IF \E i \in 1..Len(list) : list[i].sid = sid
    THEN CHOOSE i \in 1..Len(list) :
            /\ list[i].sid = sid
            /\ \A j \in 1..(i - 1) : list[j].sid # sid
    ELSE 0

\* lines 119-121
Clear(s) ==
    [s EXCEPT !.assigned_branch = None,
              !.assigned_seat_type = None,
              !.assigned_pref_index = NoIndex]

WithdrawNoSeatCheck(table, list, sid) ==
    LET i == FindSid(list, sid)
    IN  IF i = 0
        THEN [seats |-> table, students |-> list, moves |-> <<>>]
        ELSE LET b == list[i].assigned_branch
                 t == list[i].assigned_seat_type
             IN  UpgradeAndFill(FreeSeat(table, b, t),
                                [list EXCEPT ![i] = Clear(list[i])], b, t)

\* withdraw, lines 112-123
WithdrawResult(table, list, sid) ==
    LET i == FindSid(list, sid)
    IN  IF i = 0 \/ list[i].assigned_branch = None
        THEN [seats |-> table, students |-> list, moves |-> <<>>]
        ELSE LET b == list[i].assigned_branch
                 t == list[i].assigned_seat_type
             IN  UpgradeAndFill(FreeSeat(table, b, t),
                                [list EXCEPT ![i] = Clear(list[i])], b, t)

Withdraw(sid) ==
    /\ allocated
    /\ LET r == WithdrawResult(seats, students, sid)
       IN  /\ seats' = r.seats
           /\ students' = r.students
           /\ moves' = r.moves
    /\ last' = Call("withdraw", sid, None, None, 0)
    /\ raised' = FALSE
    /\ returned' = ReturnedNone
    /\ before' = [seats |-> seats, students |-> students]
    /\ UNCHANGED <<allocated, config, added, spent>>

\* add_capacity, lines 125-128
AddCapacityResult(table, list, branch, seat_type, delta) ==
    UpgradeAndFill(Put(table, branch, seat_type, Get(table, branch, seat_type) + delta),
                   list, branch, seat_type)

AddCapacity(branch, seat_type, delta) ==
    /\ allocated
    /\ spent + Cost(delta) <= MaxAdded
    /\ spent' = spent + Cost(delta)
    /\ LET r == AddCapacityResult(seats, students, branch, seat_type, delta)
       IN  /\ seats' = r.seats
           /\ students' = r.students
           /\ moves' = r.moves
    /\ added' = [added EXCEPT ![<<branch, seat_type>>] = @ + delta]
    /\ last' = Call("add_capacity", None, branch, seat_type, delta)
    /\ raised' = FALSE
    /\ returned' = ReturnedNone
    /\ before' = [seats |-> seats, students |-> students]
    /\ UNCHANGED <<allocated, config>>

SnapshotUnsorted(list) ==
    [i \in 1..Len(list) |->
        <<list[i].sid, list[i].assigned_branch, list[i].assigned_seat_type>>]

\* snapshot, lines 130-133: sorted() builds a new list and leaves the engine's
SnapshotOf(list) ==
    LET sorted == SortByKey(list)
    IN  [i \in 1..Len(sorted) |->
            <<sorted[i].sid, sorted[i].assigned_branch, sorted[i].assigned_seat_type>>]

Snapshot ==
    /\ returned' = ReturnedList(SnapshotOf(students))
    /\ before' = [seats |-> seats, students |-> students]
    /\ last' = Call("snapshot", None, None, None, 0)
    /\ moves' = <<>>
    /\ raised' = FALSE
    /\ UNCHANGED <<seats, students, allocated, config, added, spent>>

\* The calls the interface allows: a positive delta
Next ==
    \/ InitialAllocate
    \/ Snapshot
    \/ \E sid \in Sids : Withdraw(sid)
    \/ \E p \in AddPairs : \E delta \in 1..MaxDelta : AddCapacity(p[1], p[2], delta)

Spec == Init /\ [][Next]_vars

\* The calls the code accepts: any integer delta
NextAnyDelta ==
    \/ InitialAllocate
    \/ Snapshot
    \/ \E sid \in Sids : Withdraw(sid)
    \/ \E p \in AddPairs : \E delta \in (-MaxDeficit)..MaxDelta :
            AddCapacity(p[1], p[2], delta)

SpecAnyDelta == Init /\ [][NextAnyDelta]_vars

-----------------------------------------------------------------------------
(* Vocabulary of the properties, from the specification's data model *)

Cands == 1..Len(students)
AllPairs == RefBranches \X {ALL_CATS[i] : i \in 1..Len(ALL_CATS)}

Holds(s, b, t) == s.assigned_branch = b /\ s.assigned_seat_type = t
Unassigned(s) == s.assigned_branch = None
Holders(list, b, t) == Cardinality({i \in 1..Len(list) : Holds(list[i], b, t)})

\* position (1-based) of a branch in a preference list, 0 when absent
Position(prefs, b) ==
    IF \E k \in 1..Len(prefs) : prefs[k] = b
    THEN CHOOSE k \in 1..Len(prefs) : prefs[k] = b /\ \A j \in 1..(k - 1) : prefs[j] # b
    ELSE 0

\* Priority key order: rank, then higher total marks, then higher subject
\* marks, then earlier date, then id
PriorityBefore(x, y) ==
    \/ x.rank < y.rank
    \/ x.rank = y.rank /\ x.total_marks > y.total_marks
    \/ x.rank = y.rank /\ x.total_marks = y.total_marks
       /\ x.subject_marks > y.subject_marks
    \/ x.rank = y.rank /\ x.total_marks = y.total_marks
       /\ x.subject_marks = y.subject_marks /\ x.dob < y.dob
    \/ x.rank = y.rank /\ x.total_marks = y.total_marks
       /\ x.subject_marks = y.subject_marks /\ x.dob = y.dob
       /\ SidRank(x.sid) < SidRank(y.sid)

IsEligible(s, t) == t = OPEN \/ t = s.category

WantsBranch(s, b) ==
    /\ Position(s.preferences, b) > 0
    /\ \/ Unassigned(s)
       \/ Position(s.preferences, b) < Position(s.preferences, s.assigned_branch)

\* steps of withdraw and of add_capacity (every call rewrites last)
IsWithdrawStep == last'.op = "withdraw" /\ last' # last
IsAddStep == last'.op = "add_capacity" /\ spent' # spent
IsSnapshotStep == last'.op = "snapshot" /\ last' # last

-----------------------------------------------------------------------------
(* C1: once initial_allocation has run, for every (branch, seat type) the  *)
(* remaining count plus the number of candidates holding that pair equals  *)
(* the configured capacity plus the sum of the deltas added to the pair.   *)
CapacityConservation ==
    allocated =>
        \A p \in AllPairs :
            Get(seats, p[1], p[2]) + Holders(students, p[1], p[2])
                = Get(config, p[1], p[2]) + (IF p \in AddPairs THEN added[p] ELSE 0)

\* after a withdrawal, some pair has more holders than it was configured with
ConservationWitness ==
    /\ last.op = "withdraw"
    /\ \E i \in Cands : students[i].sid = last.sid /\ ~Unassigned(students[i])
    /\ \E p \in AddPairs :
        /\ added[p] >= 1
        /\ Holders(students, p[1], p[2]) > Get(config, p[1], p[2])

(* C2: a step that withdraws a candidate who holds a seat leaves that      *)
(* candidate with no branch, no seat type and no preference index (and the *)
(* candidate is never seated again).                                       *)
WithdrawRemovesCandidate ==
    [][\A i \in Cands :
         (IsWithdrawStep /\ last'.sid = students[i].sid /\ ~Unassigned(students[i]))
            => /\ students'[i].assigned_branch = None
               /\ students'[i].assigned_seat_type = None
               /\ students'[i].assigned_pref_index = NoIndex]_vars

(* C3: a step that withdraws the holder of a seat (b, t) while some other  *)
(* candidate is eligible for t and wants b ends with the seat held by the  *)
(* other candidate that comes first in Priority key order.                 *)
RefillAfterWithdrawal ==
    [][\A i \in Cands :
         (IsWithdrawStep /\ last'.sid = students[i].sid /\ ~Unassigned(students[i]))
            => LET b == students[i].assigned_branch
                   t == students[i].assigned_seat_type
                   others == {j \in Cands \ {i} :
                                IsEligible(students[j], t) /\ WantsBranch(students[j], b)}
               IN  \A j \in others :
                     (\A k \in others \ {j} : PriorityBefore(students[j], students[k]))
                        => Holds(students'[j], b, t)]_vars

(* C4: once initial_allocation has run, no candidate X holds a seat (b, t) *)
(* while a candidate Y before X in Priority key order is eligible for t    *)
(* and wants b.                                                            *)
NoBlockedCandidate ==
    allocated =>
        \A x \in Cands : \A y \in Cands :
            ~ /\ ~Unassigned(students[x])
              /\ PriorityBefore(students[y], students[x])
              /\ IsEligible(students[y], students[x].assigned_seat_type)
              /\ WantsBranch(students[y], students[x].assigned_branch)

\* after add_capacity, a candidate holds a seat of a full pair that a
\* candidate after them in key order wants and is eligible for
NoBlockedWitness ==
    /\ last.op = "add_capacity"
    /\ \E x \in Cands : \E y \in Cands :
        /\ Holds(students[x], last.branch, last.seat_type)
        /\ PriorityBefore(students[x], students[y])
        /\ IsEligible(students[y], last.seat_type)
        /\ WantsBranch(students[y], last.branch)
        /\ Get(seats, last.branch, last.seat_type) = 0

(* C5: once initial_allocation has run, no pair of the seat pool has       *)
(* remaining capacity > 0 while some candidate is eligible for its seat    *)
(* type and wants its branch.                                              *)
FixedPointOnReturn ==
    allocated =>
        \A p \in AllPairs \cup DOMAIN seats :
            Get(seats, p[1], p[2]) > 0 =>
                ~\E i \in Cands :
                    IsEligible(students[i], p[2]) /\ WantsBranch(students[i], p[1])

\* the reference configuration after add_capacity("CSE", OPEN, 1) as the only
\* addition: S4 has moved up to CSE and S8 has taken the seat S4 left at ECE
FixedPointWitness ==
    /\ config = RefSeats /\ Len(students) = 8
    /\ last = Call("add_capacity", None, "CSE", OPEN, 1) /\ spent = 1
    /\ \E i \in Cands : students[i].sid = "S4" /\ Holds(students[i], "CSE", OPEN)
    /\ \E i \in Cands : students[i].sid = "S8" /\ Holds(students[i], "ECE", OPEN)

(* C6: a step of add_capacity with delta <= 0 ends in an error and leaves  *)
(* the seat pool, the set of its entries included, and every candidate's   *)
(* assignment unchanged.                                                   *)
NonPositiveDeltaRejected ==
    [][(IsAddStep /\ last'.delta <= 0)
         => /\ raised'
            /\ seats' = seats
            /\ students' = students]_vars

(* C7: once initial_allocation has run, every candidate who holds a seat   *)
(* holds an open seat or a seat of the reserved type equal to the          *)
(* candidate's own category.                                               *)
EligibilityInvariant ==
    allocated =>
        \A i \in Cands :
            ~Unassigned(students[i]) =>
                \/ students[i].assigned_seat_type = OPEN
                \/ students[i].assigned_seat_type = students[i].category

\* add_capacity of a reserved type has seated a candidate of that category
\* beyond the configured capacity of the pair
EligibilityWitness ==
    /\ last.op = "add_capacity" /\ last.seat_type # OPEN
    /\ Holders(students, last.branch, last.seat_type)
            > Get(config, last.branch, last.seat_type)
    /\ \E i \in Cands : students[i].category = "GEN" /\ WantsBranch(students[i], last.branch)

(* C8: in every step, a candidate who holds a seat still holds one after   *)
(* the step, at a preference index that is not larger; so of any two       *)
(* assignments of a candidate the later one has the smaller or equal index.*)
MonotonicImprovement ==
    [][\A i \in Cands : \A j \in 1..Len(students') :
         (students'[j].sid = students[i].sid /\ ~Unassigned(students[i]))
            => /\ ~Unassigned(students'[j])
               /\ Position(students'[j].preferences, students'[j].assigned_branch)
                    <= Position(students[i].preferences, students[i].assigned_branch)
               /\ students'[j].assigned_pref_index <= students[i].assigned_pref_index]_vars

\* the reference configuration: S4, seated at ECE (index 1) by the initial
\* allocation, holds CSE (index 0) after add_capacity
MonotonicWitness ==
    /\ config = RefSeats /\ Len(students) = 8
    /\ last.op = "add_capacity"
    /\ \E i \in Cands :
        /\ students[i].sid = "S4"
        /\ Holds(students[i], "CSE", OPEN)
        /\ students[i].assigned_pref_index = 0

\* Seats of (b, t) left when the initial allocation reaches candidate i: the
\* configured capacity less the seats held by candidates before i in key order
LeftFor(i, b, t) ==
    Get(config, b, t)
        - Cardinality({j \in Cands : /\ PriorityBefore(students[j], students[i])
                                     /\ Holds(students[j], b, t)})

\* the seat type first-fit gives candidate i at branch b, None for neither
FitAt(i, b) ==
    IF LeftFor(i, b, OPEN) > 0 THEN OPEN
    ELSE IF students[i].category \in RESERVED_CATS /\ LeftFor(i, b, students[i].category) > 0
         THEN students[i].category
         ELSE None

FirstFit(i) ==
    LET prefs == students[i].preferences
        fits == {k \in 1..Len(prefs) : FitAt(i, prefs[k]) # None}
    IN  IF fits = {} THEN <<None, None>>
        ELSE LET k == CHOOSE m \in fits : \A n \in fits : m <= n
             IN  <<prefs[k], FitAt(i, prefs[k])>>

(* C9: right after initial_allocation, every candidate holds the first     *)
(* branch of their preference list at which, when the candidates are taken *)
(* in ascending Priority key order, an open seat or else a reserved seat   *)
(* of their own category was left, and nothing when there is none; in the  *)
(* reference configuration S1 holds CSE/open.                              *)
InitialAllocationIsFirstFit ==
    last.op = "initial_allocation" =>
        /\ \A i \in Cands :
            <<students[i].assigned_branch, students[i].assigned_seat_type>> = FirstFit(i)
        /\ (config = RefSeats /\ Len(students) = 8) =>
                \E i \in Cands : students[i].sid = "S1" /\ Holds(students[i], "CSE", OPEN)

\* right after initial_allocation: a candidate is left unassigned, one got a
\* second preference, one got a reserved seat
FirstFitWitness ==
    /\ last.op = "initial_allocation"
    /\ \E i \in Cands : Unassigned(students[i])
    /\ \E i \in Cands : students[i].assigned_pref_index = 1
    /\ \E i \in Cands : ~Unassigned(students[i]) /\ students[i].assigned_seat_type # OPEN

(* C10: right after initial_allocation, a candidate who holds a reserved   *)
(* seat at a branch found no open seat left at that branch when they were  *)
(* reached, and the branch has no open seat remaining.                     *)
MeritFirst ==
    last.op = "initial_allocation" =>
        \A i \in Cands :
            (~Unassigned(students[i]) /\ students[i].assigned_seat_type # OPEN)
                => /\ LeftFor(i, students[i].assigned_branch, OPEN) = 0
                   /\ Get(seats, students[i].assigned_branch, OPEN) = 0

\* right after initial_allocation a candidate of a reserved category holds an
\* open seat at a branch whose reserved seat of that category is still free,
\* and another candidate holds a reserved seat
MeritFirstWitness ==
    /\ last.op = "initial_allocation"
    /\ \E i \in Cands :
        /\ students[i].category \in RESERVED_CATS
        /\ students[i].assigned_seat_type = OPEN
        /\ Get(seats, students[i].assigned_branch, students[i].category) > 0
    /\ \E i \in Cands : ~Unassigned(students[i]) /\ students[i].assigned_seat_type # OPEN

(* C11: a step of add_capacity(b, t, 1), made when some candidate is        *)
(* eligible for t and wants b, ends with exactly one candidate holding     *)
(* (b, t) who did not hold it before, that candidate being the first in    *)
(* Priority key order among the eligible wanting candidates at call time,  *)
(* and with every earlier holder of (b, t) still holding it.               *)
AddOneSeatPlacesOne ==
    [][(IsAddStep /\ last'.delta = 1)
         => LET b == last'.branch
                t == last'.seat_type
                wanting == {i \in Cands : IsEligible(students[i], t)
                                          /\ WantsBranch(students[i], b)}
                gained == {i \in Cands : ~Holds(students[i], b, t)
                                         /\ Holds(students'[i], b, t)}
            IN  wanting # {} =>
                  /\ Cardinality(gained) = 1
                  /\ \A i \in gained :
                        /\ i \in wanting
                        /\ \A j \in wanting \ {i} :
                              PriorityBefore(students[i], students[j])
                  /\ \A i \in Cands :
                        Holds(students[i], b, t) => Holds(students'[i], b, t)]_vars

\* after add_capacity(b, t, 1): the cascade made at least two moves, the first
\* into (b, t), the pair had holders before, and a candidate who is eligible
\* and still wants b is left
AddOneSeatWitness ==
    /\ last.op = "add_capacity" /\ last.delta = 1
    /\ Len(moves) >= 2
    /\ Holders(students, last.branch, last.seat_type) >= 2
    /\ \E i \in Cands : /\ IsEligible(students[i], last.seat_type)
                        /\ WantsBranch(students[i], last.branch)

(* C12: once initial_allocation has run, for every id, withdrawing the id  *)
(* twice in a row leaves the same seat pool and the same assignments as    *)
(* withdrawing it once.                                                    *)
IdempotentWithdrawal ==
    allocated =>
        \A sid \in Sids :
            LET once == WithdrawResult(seats, students, sid)
                twice == WithdrawResult(once.seats, once.students, sid)
            IN  twice.seats = once.seats /\ twice.students = once.students

\* a state, reached by adding capacity and then withdrawing a seat holder,
\* in which the candidate just withdrawn holds a seat (a second withdraw of
\* the same id runs the cascade again)
IdempotentWitness ==
    /\ last.op = "withdraw" /\ spent >= 1
    /\ Len(moves) >= 1
    /\ \E i \in Cands : students[i].sid = last.sid /\ ~Unassigned(students[i])

(* C13: a step of withdraw whose id matches no candidate, or a candidate   *)
(* who holds no seat, changes no capacity counter and no candidate's       *)
(* assignment state, and raises no error.                                  *)
WithdrawNoOp ==
    [][\A sid \in Sids :
         (/\ IsWithdrawStep /\ last'.sid = sid
          /\ \A i \in Cands : students[i].sid = sid => Unassigned(students[i]))
            => /\ seats' = seats
               /\ students' = students
               /\ ~raised']_vars

\* the unknown id has just been withdrawn
WithdrawUnknownWitness ==
    /\ last.op = "withdraw"
    /\ \A i \in Cands : students[i].sid # last.sid
    /\ \E i \in Cands : ~Unassigned(students[i])

\* a candidate who holds no seat has just been withdrawn
WithdrawSeatlessWitness ==
    /\ last.op = "withdraw"
    /\ \E i \in Cands : students[i].sid = last.sid /\ Unassigned(students[i])
    /\ moves = <<>>

(* C14: once initial_allocation has run, every remaining-capacity counter  *)
(* is >= 0, every seat the cascade of the most recent call took was taken  *)
(* from a counter > 0 and left it >= 0, and the assertion of _allocate has *)
(* not failed.  (Between the moves of a cascade counters only grow.)       *)
NoCapacityUnderflow ==
    allocated =>
        /\ \A p \in DOMAIN seats : seats[p] >= 0
        /\ \A k \in 1..Len(moves) : moves[k].counter > 0 /\ moves[k].after >= 0
        /\ ~raised

\* a cascade of at least two moves has emptied the pair that received capacity
UnderflowWitness ==
    /\ last.op = "add_capacity"
    /\ Len(moves) >= 2
    /\ moves[1].after = 0
    /\ Get(seats, last.branch, last.seat_type) = 0

(* C15: a step of snapshot returns a list with exactly one triple (id,     *)
(* branch, seat type) per candidate, in ascending Priority key order, the  *)
(* branch and seat type being the candidate's current assignment (both     *)
(* None when unassigned), and changes neither the seat pool nor any        *)
(* candidate's assignment state.                                           *)
SnapshotIsProjection ==
    [][IsSnapshotStep
         => LET out == returned'.value
            IN  /\ ~returned'.is_none
                /\ Len(out) = Len(students)
                /\ \A i \in Cands :
                     \E k \in 1..Len(out) :
                        /\ out[k] = <<students[i].sid, students[i].assigned_branch,
                                      students[i].assigned_seat_type>>
                        /\ \A m \in 1..Len(out) : out[m][1] = students[i].sid => m = k
                        /\ Unassigned(students[i]) => out[k][2] = None /\ out[k][3] = None
                /\ \A k \in 1..Len(out) : \A m \in 1..Len(out) :
                     k < m => \E i \in Cands : \E j \in Cands :
                                /\ students[i].sid = out[k][1]
                                /\ students[j].sid = out[m][1]
                                /\ PriorityBefore(students[i], students[j])
                /\ seats' = seats
                /\ students' = students]_vars

\* a snapshot taken of a list that is not in key order
SnapshotUnsortedListWitness ==
    /\ last.op = "snapshot" /\ ~allocated
    /\ \E i \in Cands : \E j \in Cands :
            i < j /\ PriorityBefore(students[j], students[i])

\* a snapshot taken after a cascade, with an unassigned candidate in it
SnapshotWitness ==
    /\ last.op = "snapshot" /\ spent >= 1
    /\ \E k \in 1..Len(returned.value) : returned.value[k][2] = None
    /\ \E k \in 1..Len(returned.value) : returned.value[k][3] \in RESERVED_CATS

RECURSIVE MaxPrefLen(_)
\* the length of the longest preference list among the candidates list[1..n]
MaxPrefLen(list) ==
    IF list = <<>> THEN 0
    ELSE LET n == Len(list[1].preferences)
             m == MaxPrefLen(Tail(list))
         IN  IF n > m THEN n ELSE m

(* C16: every call returns, each move of its cascade either seats a        *)
(* candidate who had no seat or moves a candidate to a strictly smaller    *)
(* preference index, and the cascade makes at most (number of candidates)  *)
(* times (longest preference list) moves.                                  *)
CascadeBounded ==
    allocated =>
        /\ \A k \in 1..Len(moves) :
              /\ moves[k].to >= 0
              /\ moves[k].from = NoIndex \/ moves[k].to < moves[k].from
        /\ Len(moves) <= Len(students) * MaxPrefLen(students)

\* a cascade that seated a candidate without a seat and upgraded another
CascadeWitness ==
    /\ last.op = "add_capacity"
    /\ \E k \in 1..Len(moves) : moves[k].from = NoIndex
    /\ \E k \in 1..Len(moves) : moves[k].from # NoIndex /\ moves[k].to < moves[k].from

\* the queue without its k-th pair
RemoveAt(vacancies, k) ==
    SubSeq(vacancies, 1, k - 1) \o SubSeq(vacancies, k + 1, Len(vacancies))

RECURSIVE DrainAnyOrder(_, _, _)
\* the final states of the cascade when the next pair is popped from any
\* position of the queue; popping position 1 every time is the code's FIFO
DrainAnyOrder(table, list, vacancies) ==
    IF vacancies = <<>>
    THEN {[seats |-> table, students |-> list]}
    ELSE UNION { LET p == vacancies[k]
                     r == FillPair(table, list, RemoveAt(vacancies, k), p[1], p[2])
                 IN  DrainAnyOrder(r.seats, r.students, r.vacancies)
                 : k \in 1..Len(vacancies) }

\* the final states of add_capacity(branch, seat_type, delta) over every order
AddCapacityAnyOrder(table, list, branch, seat_type, delta) ==
    DrainAnyOrder(Put(table, branch, seat_type, Get(table, branch, seat_type) + delta),
                  list, <<<<branch, seat_type>>>>)

\* the final states the most recent add_capacity call could have ended in
LastCallEnds ==
    AddCapacityAnyOrder(before.seats, before.students,
                        last.branch, last.seat_type, last.delta)

\* the conditions of C4 and C5 for a seat pool and a candidate list
IsFixedPoint(table, list) ==
    \A p \in AllPairs \cup DOMAIN table :
        Get(table, p[1], p[2]) > 0 =>
            ~\E i \in 1..Len(list) :
                IsEligible(list[i], p[2]) /\ WantsBranch(list[i], p[1])

HasNoBlocked(list) ==
    \A x \in 1..Len(list) : \A y \in 1..Len(list) :
        ~ /\ ~Unassigned(list[x])
          /\ PriorityBefore(list[y], list[x])
          /\ IsEligible(list[y], list[x].assigned_seat_type)
          /\ WantsBranch(list[y], list[x].assigned_branch)

(* C17, as stated: after add_capacity, processing the queued pairs in any  *)
(* order ends in the seat pool and the assignments the call ended in.      *)
QueueOrderIndependent ==
    last.op = "add_capacity" =>
        LastCallEnds = {[seats |-> seats, students |-> students]}

(* C17, amended: processing the queued pairs in any order ends in a state  *)
(* where no pair with remaining seats has an eligible wanting candidate,   *)
(* no candidate is blocked and every pair keeps its total of remaining     *)
(* plus held seats; the state the call ended in is one of them (FIFO),     *)
(* and the orders need not agree with each other.                          *)
QueueOrderFixedPoint ==
    last.op = "add_capacity" =>
        /\ [seats |-> seats, students |-> students] \in LastCallEnds
        /\ \A e \in LastCallEnds :
              /\ IsFixedPoint(e.seats, e.students)
              /\ HasNoBlocked(e.students)
              /\ \A p \in AllPairs :
                    Get(e.seats, p[1], p[2]) + Holders(e.students, p[1], p[2])
                        = Get(seats, p[1], p[2]) + Holders(students, p[1], p[2])

\* add_capacity left two pairs in the queue at once and another order of
\* popping them ends in another state
QueueOrderWitness ==
    /\ last.op = "add_capacity"
    /\ Len(moves) >= 3
    /\ Cardinality(LastCallEnds) >= 2

(* C18: in every reachable state every candidate has held branch, held     *)
(* seat type and held preference index all present or all absent, and when *)
(* present the held branch is in the candidate's preference list and the   *)
(* held index is the (0-based) position of that branch in the list.        *)
AssignmentWellFormed ==
    \A i \in Cands :
        LET s == students[i]
        IN  \/ /\ s.assigned_branch = None
               /\ s.assigned_seat_type = None
               /\ s.assigned_pref_index = NoIndex
            \/ /\ s.assigned_branch # None
               /\ s.assigned_seat_type # None
               /\ s.assigned_pref_index # NoIndex
               /\ Position(s.preferences, s.assigned_branch) > 0
               /\ s.assigned_pref_index = Position(s.preferences, s.assigned_branch) - 1

\* after a cascade: one candidate moved up to their first preference, one
\* holds their second preference and one holds nothing
WellFormedWitness ==
    /\ last.op = "add_capacity"
    /\ \E k \in 1..Len(moves) : moves[k].from = 1 /\ moves[k].to = 0
    /\ \E i \in Cands : students[i].assigned_pref_index = 1
    /\ \E i \in Cands : Unassigned(students[i])

(* C19: once initial_allocation has run, a step that withdraws a candidate *)
(* who holds a seat ends with the seat pool and every candidate's          *)
(* assignment as they were before the call: the one move of its cascade    *)
(* puts the withdrawn candidate back on the seat just freed.               *)
WithdrawRestoresState ==
    [][\A i \in Cands :
         (IsWithdrawStep /\ last'.sid = students[i].sid /\ ~Unassigned(students[i]))
            => /\ seats' = seats
               /\ students' = students
               /\ Len(moves') = 1
               /\ moves'[1].sid = students[i].sid
               /\ moves'[1].from = NoIndex
               /\ moves'[1].to = students[i].assigned_pref_index]_vars

\* a seat holder has just been withdrawn while another candidate, who holds
\* nothing, is eligible for that seat and has the withdrawn branch in their list
WithdrawRestoresWitness ==
    /\ last.op = "withdraw"
    /\ \E i \in Cands : \E j \in Cands :
        /\ students[i].sid = last.sid /\ ~Unassigned(students[i])
        /\ Len(moves) = 1 /\ moves[1].sid = last.sid
        /\ j # i /\ Unassigned(students[j])
        /\ IsEligible(students[j], students[i].assigned_seat_type)
        /\ Position(students[j].preferences, students[i].assigned_branch) > 0

\* the orders in which a second engine may be handed the same candidates:
\* every permutation of a short list; the rotations and the reversal of a
\* longer one
Reorderings(list) ==
    LET n == Len(list)
    IN  IF n <= MaxPermLen
        THEN { [i \in 1..n |-> list[f[i]]] :
                 f \in { g \in [1..n -> 1..n] :
                           \A i \in 1..n : \A j \in 1..n : i # j => g[i] # g[j] } }
        ELSE { [i \in 1..n |-> list[((i + k - 1) % n) + 1]] : k \in 0..(n - 1) }
                \cup { [i \in 1..n |-> list[n + 1 - i]] }

\* the assignment of every candidate, whatever the order of the list
AssignmentOf(list) ==
    { <<list[i].sid, list[i].assigned_branch, list[i].assigned_seat_type,
        list[i].assigned_pref_index>> : i \in 1..Len(list) }

(* C20: for an engine handed the same capacity table and the same          *)
(* candidates (unique ids) in another order, the call just made gives the  *)
(* same seat pool, the same assignment of every candidate and the same     *)
(* snapshot. After initial_allocation the two engines hold the same list   *)
(* in the same order; withdraw and add_capacity are tried on every order   *)
(* of the list all the same.                                               *)
ListOrderIndependent ==
    /\ last.op = "initial_allocation" =>
          \A q \in Reorderings(before.students) :
              LET r == InitialAllocation(before.seats, q)
              IN  /\ r.seats = seats
                  /\ r.students = students
                  /\ SnapshotOf(r.students) = SnapshotOf(students)
    /\ last.op = "snapshot" =>
          \A q \in Reorderings(students) :
              ReturnedList(SnapshotOf(q)) = returned
    /\ last.op = "add_capacity" =>
          \A q \in Reorderings(before.students) :
              LET r == AddCapacityResult(before.seats, q,
                                         last.branch, last.seat_type, last.delta)
              IN  /\ r.seats = seats
                  /\ AssignmentOf(r.students) = AssignmentOf(students)
                  /\ SnapshotOf(r.students) = SnapshotOf(students)
    /\ last.op = "withdraw" =>
          \A q \in Reorderings(before.students) :
              LET r == WithdrawResult(before.seats, q, last.sid)
              IN  /\ r.seats = seats
                  /\ AssignmentOf(r.students) = AssignmentOf(students)
                  /\ SnapshotOf(r.students) = SnapshotOf(students)

\* initial_allocation was handed a list that was not in key order, two of its
\* candidates competed for a seat and one of them was left without
ListOrderWitness ==
    /\ last.op = "initial_allocation"
    /\ before.students # students
    /\ Cardinality(Reorderings(before.students)) >= 6
    /\ \E i \in Cands : \E j \in Cands :
        /\ ~Unassigned(students[i]) /\ Unassigned(students[j])
        /\ IsEligible(students[j], students[i].assigned_seat_type)
        /\ Position(students[j].preferences, students[i].assigned_branch) > 0

====
